---------------------------- MODULE Spec2Model ----------------------------
(***************************************************************************)
(* Model of src/components/BarcodeSearch.tsx: the BarcodeSearch view, its  *)
(* four pieces of component state, its event handlers, the asynchronous    *)
(* searchProducts function (split at its two awaits) and the part of the   *)
(* rendering that depends on the state.                                    *)
(*                                                                         *)
(* Text is modelled as a sequence of fragments: a barcode is a sequence of *)
(* one-character strings, a message is a sequence of literal fragments and *)
(* decimal digits, so that the empty text is <<>> and template literals    *)
(* are concatenations.                                                     *)
(***************************************************************************)
EXTENDS Integers, Sequences, FiniteSets

VARIABLES barcode, products, loading, error, inflight, last

vars == <<barcode, products, loading, error, inflight, last>>

(***************************************************************************)
(* Bounds of the model.                                                    *)
(***************************************************************************)
MaxLen == 3

MaxTiers == 4

MaxProducts == 2

(***************************************************************************)
(* Generic helpers.                                                        *)
(***************************************************************************)
Min(a, b) == IF a < b THEN a ELSE b

SeqsUpTo(S, n) == UNION {[1..k -> S] : k \in 0..n}

\* t occurs in s as a contiguous run of fragments (String.prototype.includes)
Contains(s, t) ==
    \E k \in 0..(Len(s) - Len(t)) : SubSeq(s, k + 1, k + Len(t)) = t

RemoveAt(s, i) == SubSeq(s, 1, i - 1) \o SubSeq(s, i + 1, Len(s))

\* Array.prototype.slice(begin, end) for 0 <= begin, 0 <= end
Slice(s, begin, end) == SubSeq(s, begin + 1, Min(end, Len(s)))

DigitChars == <<"0", "1", "2", "3", "4", "5", "6", "7", "8", "9">>

\* Number-to-string conversion of a template literal, for a natural number
RECURSIVE ToString(_)
ToString(n) ==
    IF n < 10 THEN <<DigitChars[n + 1]>>
    ELSE ToString(n \div 10) \o <<DigitChars[(n % 10) + 1]>>

(***************************************************************************)
(* The barcode text and the request URL.                                   *)
(***************************************************************************)
Chars == {" ", "a"}

BarcodeTexts == SeqsUpTo(Chars, MaxLen)

IsSpace(c) == c = " "

RECURSIVE TrimStart(_)
TrimStart(s) ==
    IF s # <<>> /\ IsSpace(Head(s)) THEN TrimStart(Tail(s)) ELSE s

RECURSIVE TrimEnd(_)
TrimEnd(s) ==
    IF s # <<>> /\ IsSpace(s[Len(s)]) THEN TrimEnd(SubSeq(s, 1, Len(s) - 1))
    ELSE s

\* String.prototype.trim
Trim(s) == TrimEnd(TrimStart(s))

\* encodeURIComponent on the characters of the model: letters are kept, every
\* other character becomes its percent-encoded UTF-8 byte
EncodeChar(c) == IF c = " " THEN <<"%", "2", "0">> ELSE <<c>>

RECURSIVE encodeURIComponent(_)
encodeURIComponent(s) ==
    IF s = <<>> THEN <<>>
    ELSE EncodeChar(Head(s)) \o encodeURIComponent(Tail(s))

Endpoint == <<"https://hw.blicyber.web.id/admin/products/barcode?barcode=">>

RequestUrlUntrimmed(text) == Endpoint \o encodeURIComponent(text)

\* the template literal of the fetch call
RequestUrl(text) == Endpoint \o encodeURIComponent(Trim(text))

EmptyWithoutTrim(text) == text = <<>>

\* !barcode.trim()
EmptyAfterTrim(text) == Trim(text) = <<>>

(***************************************************************************)
(* Products and the responses of the remote endpoint.                      *)
(***************************************************************************)
TierAt(i) == [qty |-> 10 * i, price |-> 1000000 \div (i * i * i)]

TierSeq(n) == [i \in 1..n |-> TierAt(i)]

\* A product per length of its price_tiers, and one without the optional field
Catalog ==
    {[id |-> n + 1, stock |-> n, selling_price |-> 50000, price_tiers |-> TierSeq(n)] :
        n \in 0..MaxTiers}
    \cup {[id |-> 0, stock |-> 0, selling_price |-> 500]}

ProductLists == SeqsUpTo(Catalog, MaxProducts)

\* response.status
Statuses == {200, 201, 404, 500}

\* response.ok
Ok(status) == 200 <= status /\ status <= 299

JsonNull == [null |-> TRUE]

\* what response.json() can resolve with: null, an object without products, an
\* object with a products array
JsonBodies ==
    {JsonNull, [status |-> "error"]}
    \cup {[status |-> "success", products |-> ps] : ps \in ProductLists}

\* what the awaited promises can reject with, or the code can throw
NetworkError == [isError |-> TRUE, message |-> <<"Failed to fetch">>]

ParseError == [isError |-> TRUE, message |-> <<"Unexpected end of JSON input">>]

NullError ==
    [isError |-> TRUE, message |-> <<"Cannot read properties of null (reading 'products')">>]

NonError == [isError |-> FALSE]

Rejections == {NetworkError, ParseError, NonError}

(***************************************************************************)
(* Messages and toasts.                                                    *)
(***************************************************************************)
HttpErrorMessageNoStatus(status) == <<"HTTP error! status: ">>

\* `HTTP error! status: ${response.status}`
HttpErrorMessage(status) == <<"HTTP error! status: ">> \o ToString(status)

HttpError(status) == [isError |-> TRUE, message |-> HttpErrorMessage(status)]

NoProductsMessage == <<"No products found for this barcode">>

\* err instanceof Error ? err.message : "Failed to fetch products"
ErrorMessageOf(err) ==
    IF err.isError THEN err.message ELSE <<"Failed to fetch products">>

ValidationToast ==
    [title |-> "Please enter a barcode",
     description |-> <<"Enter a product barcode to search">>,
     variant |-> "destructive"]

FoundToast(n) ==
    [title |-> "Products found",
     description |-> <<"Found ">> \o ToString(n) \o <<" product(s)">>]

NoResultsToast ==
    [title |-> "No results",
     description |-> NoProductsMessage,
     variant |-> "destructive"]

FailedToast(errorMessage) ==
    [title |-> "Search failed",
     description |-> errorMessage,
     variant |-> "destructive"]

(***************************************************************************)
(* The record of the handler that ran last: its name, its input, and the   *)
(* calls it made to toast(), fetch() and response.json().                  *)
(***************************************************************************)
Ran(handler, arg, toasts, fetches, jsons) ==
    [handler |-> handler, arg |-> arg, toast |-> toasts, fetch |-> fetches,
     json |-> jsons]

Init ==
    /\ barcode = <<>>
    /\ products = <<>>
    /\ loading = FALSE
    /\ error = <<>>
    /\ inflight = <<>>
    /\ last = Ran("mount", <<>>, <<>>, <<>>, 0)

(***************************************************************************)
(* Rendering: the parts of the returned JSX that depend on the state.      *)
(***************************************************************************)
\* disabled={loading} of the Input
InputDisabled == loading

\* disabled={loading} of the Button
ButtonDisabled == loading

\* {error && <Card> ... <span>{error}</span> ... </Card>}
ErrorCard == IF error # <<>> THEN <<error>> ELSE <<>>

NBSP == "\\u00a0"

RECURSIVE GroupThousands(_)
GroupThousands(digits) ==
    IF Len(digits) <= 3 THEN digits
    ELSE GroupThousands(SubSeq(digits, 1, Len(digits) - 3))
             \o <<".">> \o SubSeq(digits, Len(digits) - 2, Len(digits))

\* Intl.NumberFormat("id-ID", currency IDR, minimumFractionDigits 0), for a
\* natural number
formatPrice(price) == <<"Rp", NBSP>> \o GroupThousands(ToString(price))

TierRow(tier) ==
    [label |-> ToString(tier.qty) \o <<"+ units:">>, price |-> formatPrice(tier.price)]

PriceTiersSectionOffByOne(product) ==
    IF "price_tiers" \in DOMAIN product /\ Len(product.price_tiers) > 0
    THEN [shown |-> TRUE,
          rows |-> LET visible == Slice(product.price_tiers, 0, 3)
                   IN  [i \in 1..Len(visible) |-> TierRow(visible[i])],
          more |-> IF Len(product.price_tiers) >= 3
                   THEN <<"+">> \o ToString(Len(product.price_tiers) - 3)
                            \o <<" more tiers">>
                   ELSE <<>>]
    ELSE [shown |-> FALSE, rows |-> <<>>, more |-> <<>>]

\* the "Price Tiers" block of a product card
PriceTiersSection(product) ==
    IF "price_tiers" \in DOMAIN product /\ Len(product.price_tiers) > 0
    THEN [shown |-> TRUE,
          rows |-> LET visible == Slice(product.price_tiers, 0, 3)
                   IN  [i \in 1..Len(visible) |-> TierRow(visible[i])],
          more |-> IF Len(product.price_tiers) > 3
                   THEN <<"+">> \o ToString(Len(product.price_tiers) - 3)
                            \o <<" more tiers">>
                   ELSE <<>>]
    ELSE [shown |-> FALSE, rows |-> <<>>, more |-> <<>>]

\* {products.length > 0 && ... products.map(product => <Card> ...)}
ProductCards == [i \in 1..Len(products) |-> PriceTiersSection(products[i])]

(***************************************************************************)
(* searchProducts, up to its first await.                                  *)
(***************************************************************************)
searchProductsKeepingResults(handler, arg) ==
    IF EmptyAfterTrim(barcode)
    THEN /\ last' = Ran(handler, arg, <<ValidationToast>>, <<>>, 0)
         /\ UNCHANGED <<barcode, products, loading, error, inflight>>
    ELSE /\ loading' = TRUE
         /\ error' = <<>>
         /\ inflight' = Append(inflight, [url |-> RequestUrl(barcode), pc |-> "fetch"])
         /\ last' = Ran(handler, arg, <<>>, <<RequestUrl(barcode)>>, 0)
         /\ UNCHANGED <<barcode, products>>

searchProducts(handler, arg) ==
    IF EmptyAfterTrim(barcode)
    THEN /\ last' = Ran(handler, arg, <<ValidationToast>>, <<>>, 0)
         /\ UNCHANGED <<barcode, products, loading, error, inflight>>
    ELSE /\ loading' = TRUE
         /\ error' = <<>>
         /\ products' = <<>>
         /\ inflight' = Append(inflight, [url |-> RequestUrl(barcode), pc |-> "fetch"])
         /\ last' = Ran(handler, arg, <<>>, <<RequestUrl(barcode)>>, 0)
         /\ UNCHANGED barcode

Keys == {"Enter", "a"}

handleKeyPress(key) ==
    IF key = "Enter"
    THEN searchProducts("handleKeyPress", key)
    ELSE /\ last' = Ran("handleKeyPress", key, <<>>, <<>>, 0)
         /\ UNCHANGED <<barcode, products, loading, error, inflight>>

(***************************************************************************)
(* The continuations of searchProducts after its awaits.  i is the         *)
(* position of the invocation among the pending ones.                      *)
(***************************************************************************)
CatchWithoutFinally(i, err, handler, arg) ==
    /\ error' = ErrorMessageOf(err)
    /\ inflight' = RemoveAt(inflight, i)
    /\ last' = Ran(handler, arg, <<FailedToast(ErrorMessageOf(err))>>, <<>>, 0)
    /\ UNCHANGED <<barcode, products, loading>>

CatchWithoutSetError(i, err, handler, arg) ==
    /\ loading' = FALSE
    /\ inflight' = RemoveAt(inflight, i)
    /\ last' = Ran(handler, arg, <<FailedToast(ErrorMessageOf(err))>>, <<>>, 0)
    /\ UNCHANGED <<barcode, products, error>>

\* the catch block followed by the finally block
Catch(i, err, handler, arg) ==
    /\ error' = ErrorMessageOf(err)
    /\ loading' = FALSE
    /\ inflight' = RemoveAt(inflight, i)
    /\ last' = Ran(handler, arg, <<FailedToast(ErrorMessageOf(err))>>, <<>>, 0)
    /\ UNCHANGED <<barcode, products>>

\* data.products && data.products.length > 0
HasProducts(data) == "products" \in DOMAIN data /\ Len(data.products) > 0

StoredProductsDroppingFirst(data) == Tail(data.products)

\* the argument of setProducts
StoredProducts(data) == data.products

EmptyResultKeepsQuiet(i, data) ==
    /\ loading' = FALSE
    /\ inflight' = RemoveAt(inflight, i)
    /\ last' = Ran("jsonResolved", data, <<>>, <<>>, 0)
    /\ UNCHANGED <<barcode, products, error>>

\* the else branch of the products test, followed by the finally block
EmptyResult(i, data) ==
    /\ error' = NoProductsMessage
    /\ loading' = FALSE
    /\ inflight' = RemoveAt(inflight, i)
    /\ last' = Ran("jsonResolved", data, <<NoResultsToast>>, <<>>, 0)
    /\ UNCHANGED <<barcode, products>>

\* the then branch of the products test, followed by the finally block
FoundProducts(i, data) ==
    /\ products' = StoredProducts(data)
    /\ loading' = FALSE
    /\ inflight' = RemoveAt(inflight, i)
    /\ last' = Ran("jsonResolved", data, <<FoundToast(Len(data.products))>>, <<>>, 0)
    /\ UNCHANGED <<barcode, error>>

(***************************************************************************)
(* Events of the user interface.                                          *)
(***************************************************************************)
OnChange ==
    /\ ~InputDisabled
    /\ \E v \in BarcodeTexts :
          /\ v # barcode
          /\ barcode' = v
          /\ last' = Ran("onChange", v, <<>>, <<>>, 0)
    /\ UNCHANGED <<products, loading, error, inflight>>

OnKeyPress ==
    /\ ~InputDisabled
    /\ \E key \in Keys : handleKeyPress(key)

OnClickWhileLoading == searchProducts("onClick", "click")

OnClick ==
    /\ ~ButtonDisabled
    /\ searchProducts("onClick", "click")

(***************************************************************************)
(* Settlement of the awaited promises.                                     *)
(***************************************************************************)
FetchResolved ==
    \E i \in DOMAIN inflight, status \in Statuses :
        /\ inflight[i].pc = "fetch"
        /\ IF ~Ok(status)
           THEN Catch(i, HttpError(status), "fetchResolved", status)
           ELSE /\ inflight' = [inflight EXCEPT ![i].pc = "json"]
                /\ last' = Ran("fetchResolved", status, <<>>, <<>>, 1)
                /\ UNCHANGED <<barcode, products, loading, error>>

FetchRejected ==
    \E i \in DOMAIN inflight, err \in Rejections :
        /\ inflight[i].pc = "fetch"
        /\ Catch(i, err, "fetchRejected", err)

JsonResolved ==
    \E i \in DOMAIN inflight, data \in JsonBodies :
        /\ inflight[i].pc = "json"
        /\ IF data = JsonNull
           THEN Catch(i, NullError, "jsonResolved", data)
           ELSE IF HasProducts(data)
                THEN FoundProducts(i, data)
                ELSE EmptyResult(i, data)

JsonRejected ==
    \E i \in DOMAIN inflight, err \in Rejections :
        /\ inflight[i].pc = "json"
        /\ Catch(i, err, "jsonRejected", err)

Next ==
    \/ OnChange
    \/ OnKeyPress
    \/ OnClick
    \/ FetchResolved
    \/ FetchRejected
    \/ JsonResolved
    \/ JsonRejected

Spec == Init /\ [][Next]_vars

\* Every awaited promise settles: the premise under which the view is said to
\* leave the searching state.
FairSpec ==
    /\ Spec
    /\ WF_vars(FetchResolved \/ FetchRejected)
    /\ WF_vars(JsonResolved \/ JsonRejected)

(***************************************************************************)
(* Vocabulary of the properties, in terms of the handler that ran last.    *)
(***************************************************************************)
\* a search was triggered: the button was clicked or Enter was pressed
Searched ==
    \/ last.handler = "onClick"
    \/ last.handler = "handleKeyPress" /\ last.arg = "Enter"

\* the response arrived with a status outside 200..299
HttpFailure ==
    last.handler = "fetchResolved" /\ (last.arg < 200 \/ last.arg > 299)

\* the response arrived with a 2xx status and its body is being read
BodyPending ==
    last.handler = "fetchResolved" /\ 200 <= last.arg /\ last.arg <= 299

\* fetch or response.json() rejected, or reading the parsed body threw
Thrown ==
    \/ last.handler \in {"fetchRejected", "jsonRejected"}
    \/ last.handler = "jsonResolved" /\ DOMAIN last.arg = {"null"}

\* the body was parsed and holds a non-empty products array
GotProducts ==
    /\ last.handler = "jsonResolved"
    /\ "products" \in DOMAIN last.arg
    /\ Len(last.arg.products) > 0

\* the body was parsed and holds an empty products array
GotEmptyArray ==
    /\ last.handler = "jsonResolved"
    /\ "products" \in DOMAIN last.arg
    /\ Len(last.arg.products) = 0

\* the body was parsed and holds no product
GotNothing ==
    /\ last.handler = "jsonResolved"
    /\ DOMAIN last.arg # {"null"}
    /\ ~GotProducts

UrlFor(text) == Endpoint \o encodeURIComponent(Trim(text))

OutcomeTitles == {"Products found", "No results", "Search failed"}

(***************************************************************************)
(* C1: a search triggered (click or Enter) while the barcode is empty      *)
(* after trimming calls fetch zero times, leaves no request pending and    *)
(* raises exactly the "Please enter a barcode" toast.                      *)
(***************************************************************************)
C1_BlankSearchWarnsWithoutRequest ==
    (Searched /\ Trim(barcode) = <<>>) =>
        /\ last.fetch = <<>>
        /\ inflight = <<>>
        /\ ~loading
        /\ Len(last.toast) = 1
        /\ last.toast[1].title = "Please enter a barcode"

C1_Witness ==
    /\ Searched
    /\ barcode = <<" ", " ">>
    /\ products # <<>>
    /\ Len(last.toast) = 1

(***************************************************************************)
(* C2: after a 2xx response whose body holds a non-empty products array,   *)
(* the product list is exactly that array and the error message is empty.  *)
(***************************************************************************)
C2_ResultsStoredExactly ==
    GotProducts => products = last.arg.products /\ error = <<>>

C2_Witness ==
    /\ GotProducts
    /\ Len(products) = 2
    /\ products[1] # products[2]

(***************************************************************************)
(* C3: after a 2xx response whose body holds an empty products array, the  *)
(* product list is empty and the error message is "No products found for   *)
(* this barcode".                                                          *)
(***************************************************************************)
C3_EmptyArraySetsNoProducts ==
    GotEmptyArray =>
        products = <<>> /\ error = <<"No products found for this barcode">>

C3_Witness == GotEmptyArray /\ ~loading

(***************************************************************************)
(* C4: after a response with a non-2xx status the search has ended in the  *)
(* error state: no product, response.json() not called, the invocation no  *)
(* longer pending, and a non-empty error message that contains the decimal *)
(* status code.                                                            *)
(***************************************************************************)
C4_HttpFailureNamesStatus ==
    HttpFailure =>
        /\ products = <<>>
        /\ last.json = 0
        /\ \A i \in DOMAIN inflight : inflight[i].pc # "json"
        /\ error # <<>>
        /\ Contains(error, ToString(last.arg))
        /\ Len(last.toast) = 1
        /\ last.toast[1].title = "Search failed"

C4_Witness == HttpFailure /\ last.arg = 404 /\ inflight = <<>>

(***************************************************************************)
(* C5: loading is true only while an invocation of searchProducts is       *)
(* pending, and, provided every awaited promise settles, a view that is    *)
(* loading eventually is not: whatever the outcome of the search, loading  *)
(* is set back to false.                                                   *)
(***************************************************************************)
C5_LoadingClearedWhenDone ==
    /\ [](inflight = <<>> => ~loading)
    /\ loading ~> ~loading

C5_Witness == last.handler = "jsonRejected" /\ inflight = <<>> /\ ~loading

(***************************************************************************)
(* C6 as stated: every error of the taxonomy (validation, HTTP status,     *)
(* network or parse failure, empty result) is shown as a toast and as the  *)
(* inline error message.                                                   *)
(***************************************************************************)
C6_EveryErrorInlineAndToast ==
    ((Searched /\ Trim(barcode) = <<>>) \/ HttpFailure \/ Thrown \/ GotNothing) =>
        /\ Len(last.toast) = 1
        /\ ErrorCard # <<>>

(***************************************************************************)
(* C6 as amended: every error of the taxonomy raises one destructive       *)
(* toast; an HTTP status, network or parse failure or empty result also    *)
(* sets the inline error message to the description of that toast; the     *)
(* validation error leaves the inline error message and the product list   *)
(* as they were.                                                           *)
(***************************************************************************)
C6_FetchErrorsInlineValidationToastOnly ==
    /\ [](((Searched /\ Trim(barcode) = <<>>) \/ HttpFailure \/ Thrown \/ GotNothing) =>
            /\ Len(last.toast) = 1
            /\ last.toast[1].variant = "destructive")
    /\ []((HttpFailure \/ Thrown \/ GotNothing) =>
            /\ error = last.toast[1].description
            /\ ErrorCard = <<last.toast[1].description>>)
    /\ [][(Searched' /\ Trim(barcode') = <<>>) =>
            (error' = error /\ products' = products)]_vars

C6_Witness ==
    /\ Searched
    /\ Trim(barcode) = <<>>
    /\ Len(last.toast) = 1
    /\ ErrorCard = <<>>

(***************************************************************************)
(* C7: for every product shown whose price_tiers has length L >= 1, the    *)
(* card lists exactly the first min(L, 3) tiers, in order, and shows the   *)
(* "+N more tiers" line exactly when L > 3, with N = L - 3.                *)
(***************************************************************************)
C7_FirstThreeTiersAndMore ==
    \A i \in DOMAIN products :
        ("price_tiers" \in DOMAIN products[i] /\ Len(products[i].price_tiers) >= 1) =>
            LET tiers == products[i].price_tiers
                L == Len(tiers)
                section == ProductCards[i]
            IN  /\ section.shown
                /\ Len(section.rows) = (IF L < 3 THEN L ELSE 3)
                /\ \A k \in 1..Len(section.rows) :
                       /\ section.rows[k].label = ToString(tiers[k].qty) \o <<"+ units:">>
                       /\ section.rows[k].price = formatPrice(tiers[k].price)
                /\ (section.more # <<>>) <=> (L > 3)
                /\ L > 3 =>
                       section.more = <<"+">> \o ToString(L - 3) \o <<" more tiers">>

C7_Witness ==
    /\ Len(products) = 2
    /\ "price_tiers" \in DOMAIN products[1]
    /\ Len(products[1].price_tiers) = 3
    /\ "price_tiers" \in DOMAIN products[2]
    /\ Len(products[2].price_tiers) > 3

(***************************************************************************)
(* C8: an accepted trigger starts one search: it calls fetch once, with    *)
(* the URL of the trimmed barcode, and is the only pending invocation; no  *)
(* other handler calls fetch; the invocation ends with exactly one outcome *)
(* (products found, no results, or failure) and leaves the view idle.      *)
(***************************************************************************)
C8_OneRequestOneOutcome ==
    /\ (Searched /\ Trim(barcode) # <<>>) =>
          /\ loading
          /\ last.fetch = <<UrlFor(barcode)>>
          /\ inflight = <<[url |-> UrlFor(barcode), pc |-> "fetch"]>>
          /\ last.toast = <<>>
    /\ ~Searched => last.fetch = <<>>
    /\ \A i \in DOMAIN inflight : inflight[i].url = UrlFor(barcode)
    /\ BodyPending =>
          /\ loading
          /\ inflight = <<[url |-> UrlFor(barcode), pc |-> "json"]>>
          /\ last.toast = <<>>
    /\ (HttpFailure \/ Thrown \/ GotNothing \/ GotProducts) =>
          /\ ~loading
          /\ inflight = <<>>
          /\ Len(last.toast) = 1
          /\ last.toast[1].title \in OutcomeTitles
          /\ last.toast[1].title = "Products found" <=> products # <<>>
          /\ last.toast[1].title = "No results" <=> GotNothing

C8_Witness ==
    /\ Searched
    /\ barcode = <<" ", "a", " ">>
    /\ loading
    /\ last.fetch = <<Endpoint \o <<"a">> >>

(***************************************************************************)
(* C9: at most one invocation of searchProducts is pending, and while one  *)
(* is pending loading is true, the input and the button are disabled, and  *)
(* the pending request is the one of the barcode on screen.                *)
(***************************************************************************)
C9_AtMostOneInFlight ==
    /\ Len(inflight) <= 1
    /\ inflight # <<>> =>
          /\ loading
          /\ InputDisabled
          /\ ButtonDisabled
          /\ inflight[1].url = UrlFor(barcode)

C9_Witness == Len(inflight) = 1 /\ inflight[1].pc = "json" /\ ButtonDisabled

(***************************************************************************)
(* C10: the product list and the error message are never both non-empty,   *)
(* and while loading is true both are empty.                               *)
(***************************************************************************)
C10_ResultsXorError ==
    /\ ~(products # <<>> /\ error # <<>>)
    /\ loading => (products = <<>> /\ error = <<>>)

C10_Witness ==
    /\ loading
    /\ Searched
    /\ products = <<>>
    /\ error = <<>>

====
